---- MODULE Spec2Model ----
(***************************************************************************)
(* A model of scanner.py, the AI-visibility scanner: the four checks       *)
(* (robots.txt, meta noindex, meta nofollow, bot-protection headers), the  *)
(* JSON-LD schema extraction and the /scan handler run_scan.               *)
(*                                                                         *)
(* Two specifications:                                                     *)
(*   Spec      the scanner process serving run_scan calls, one statement   *)
(*             of the handler per action;                                  *)
(*   SpecUnit  each function of the module applied once to an input drawn  *)
(*             from a bounded set.                                         *)
(*                                                                         *)
(* Python strings are TLA+ strings; where the code looks inside a string   *)
(* (the `in` substring test, lower()) the model works on its characters,   *)
(* given by Chars.  The pictograph that starts each message of the code    *)
(* is left out of the message constants.                                   *)
(***************************************************************************)
EXTENDS Integers, Sequences, FiniteSets, TLC

VARIABLES
    hashseed,   \* the interpreter's string-hash seed, drawn when the process starts
    site,       \* what the scanned site serves (it does not change)
    url,        \* the target URL of the scan
    pc,         \* the statement of run_scan about to execute
    html,       \* run_scan's local html
    schemas,    \* run_scan's local schemas
    missing,    \* run_scan's local missing
    fields,     \* the entries of the returned dict evaluated so far
    fetchlog,   \* the HTTP GETs issued by the current call, in order
    result,     \* what the current call gave its caller
    scans,      \* calls of run_scan started so far
    observed,   \* what the caller saw of the last two completed calls
    fn,         \* SpecUnit: the function under test
    ret         \* SpecUnit: its outcome

vars == <<hashseed, site, url, pc, html, schemas, missing, fields, fetchlog,
          result, scans, observed, fn, ret>>

None == [k |-> "none"]

----------------------------------------------------------------------------
(* Bounds of the model *)

MaxLines == 2       \* lines of a robots.txt body
MaxMetas == 2       \* meta elements of a page
MaxHeaders == 2     \* headers of a response
MaxBlocks == 2      \* script elements of a page
NumSeeds == 2       \* hash seeds an interpreter may start with
MaxScans == 2       \* calls of run_scan the process serves

----------------------------------------------------------------------------
(* Python str *)

Chars ==
       ("" :> <<>>)
    @@ ("GPTBot" :> <<"G", "P", "T", "B", "o", "t">>)
    @@ ("gptbot" :> <<"g", "p", "t", "b", "o", "t">>)
    @@ ("*" :> <<"*">>)
    @@ ("/" :> <<"/">>)
    @@ ("\n" :> <<"\n">>)
    @@ ("User-agent: " :> <<"U", "s", "e", "r", "-", "a", "g", "e", "n", "t", ":", " ">>)
    @@ ("Disallow: " :> <<"D", "i", "s", "a", "l", "l", "o", "w", ":", " ">>)
    @@ ("Allow: " :> <<"A", "l", "l", "o", "w", ":", " ">>)
    @@ ("# " :> <<"#", " ">>)
    @@ ("GPTBot is welcome" :> <<"G", "P", "T", "B", "o", "t", " ", "i", "s", " ", "w", "e", "l", "c", "o", "m", "e">>)
    @@ ("noindex" :> <<"n", "o", "i", "n", "d", "e", "x">>)
    @@ ("nofollow" :> <<"n", "o", "f", "o", "l", "l", "o", "w">>)
    @@ ("noindex, nofollow" :> <<"n", "o", "i", "n", "d", "e", "x", ",", " ", "n", "o", "f", "o", "l", "l", "o", "w">>)
    @@ ("NOINDEX" :> <<"N", "O", "I", "N", "D", "E", "X">>)
    @@ ("NoFollow" :> <<"N", "o", "F", "o", "l", "l", "o", "w">>)
    @@ ("index, follow" :> <<"i", "n", "d", "e", "x", ",", " ", "f", "o", "l", "l", "o", "w">>)
    @@ ("cf-ray" :> <<"c", "f", "-", "r", "a", "y">>)
    @@ ("x-protection" :> <<"x", "-", "p", "r", "o", "t", "e", "c", "t", "i", "o", "n">>)
    @@ ("server" :> <<"s", "e", "r", "v", "e", "r">>)
    @@ ("cloudflare" :> <<"c", "l", "o", "u", "d", "f", "l", "a", "r", "e">>)
    @@ ("CF-RAY" :> <<"C", "F", "-", "R", "A", "Y">>)
    @@ ("X-Protection" :> <<"X", "-", "P", "r", "o", "t", "e", "c", "t", "i", "o", "n">>)
    @@ ("Server" :> <<"S", "e", "r", "v", "e", "r">>)
    @@ ("X-Cache" :> <<"X", "-", "C", "a", "c", "h", "e">>)
    @@ ("Cloudflare" :> <<"C", "l", "o", "u", "d", "f", "l", "a", "r", "e">>)
    @@ ("nginx" :> <<"n", "g", "i", "n", "x">>)
    @@ ("HIT" :> <<"H", "I", "T">>)
    @@ ("@type" :> <<"@", "t", "y", "p", "e">>)
    @@ ("plain text" :> <<"p", "l", "a", "i", "n", " ", "t", "e", "x", "t">>)
    @@ ("see @type" :> <<"s", "e", "e", " ", "@", "t", "y", "p", "e">>)

UpperCase == <<"A", "B", "C", "D", "E", "F", "G", "H", "I", "J", "K", "L", "M",
               "N", "O", "P", "Q", "R", "S", "T", "U", "V", "W", "X", "Y", "Z">>
LowerCase == <<"a", "b", "c", "d", "e", "f", "g", "h", "i", "j", "k", "l", "m",
               "n", "o", "p", "q", "r", "s", "t", "u", "v", "w", "x", "y", "z">>

\* str.lower(), on the characters of a string
lower(cs) ==
    [i \in 1..Len(cs) |->
        IF \E j \in 1..Len(UpperCase) : UpperCase[j] = cs[i]
        THEN LowerCase[CHOOSE j \in 1..Len(UpperCase) : UpperCase[j] = cs[i]]
        ELSE cs[i]]

\* needle in hay, for two str: the substring test
Contains(hay, needle) ==
    \E i \in 0..(Len(hay) - Len(needle)) :
        SubSeq(hay, i + 1, i + Len(needle)) = needle

RECURSIVE Concat(_)
\* "".join(parts)
Concat(parts) ==
    IF parts = <<>> THEN <<>> ELSE Head(parts) \o Concat(Tail(parts))

\* the sequences over S of length at most n
SeqUpTo(S, n) == UNION {[1..m -> S] : m \in 0..n}

----------------------------------------------------------------------------
(* The site and the HTTP client *)

\* A line of a robots.txt file and the text it is served as
RobotsLine(kind, val) == [kind |-> kind, val |-> val]

RenderLine(l) ==
    (CASE l.kind = "ua" -> Chars["User-agent: "]
       [] l.kind = "disallow" -> Chars["Disallow: "]
       [] l.kind = "allow" -> Chars["Allow: "]
       [] l.kind = "comment" -> Chars["# "])
    \o Chars[l.val] \o Chars["\n"]

RenderRobots(lines) == Concat([i \in 1..Len(lines) |-> RenderLine(lines[i])])

\* An element of a page as html.parser hands it to BeautifulSoup: tag and
\* attribute names in lower case, the string of a script element its text
Element(tag, attrs, string) == [tag |-> tag, attrs |-> attrs, string |-> string]

URL(origin, path) == [origin |-> origin, path |-> path]

RobotsPath == "/robots.txt"

\* urllib.parse.urljoin(base_url, "/robots.txt"): an absolute path replaces
\* the path of the base and keeps its scheme and host
urljoin(base_url, path) == [base_url EXCEPT !.path = path]

ConnectionError == [k |-> "raise", exc |-> "ConnectionError"]
TypeError == [k |-> "raise", exc |-> "TypeError"]
ValueError == [k |-> "raise", exc |-> "ValueError"]

Raises(v) == v.k = "raise"

Response(status_code, body, headers) ==
    [k |-> "response", status_code |-> status_code, body |-> body,
     headers |-> headers]

\* What the site answers to a GET of u
Serve(s, u) ==
    IF u.path = RobotsPath
    THEN Response(s.robots.status_code,
                  [kind |-> "plain", lines |-> s.robots.lines], {})
    ELSE Response(s.page.status_code,
                  [kind |-> "html", doc |-> s.page.doc], s.page.headers)

\* requests.get(u, timeout=5): the response, or an exception when the
\* network fails (ok = FALSE: no connection, timeout, malformed response)
requests_get(s, u, ok) == IF ok THEN Serve(s, u) ELSE ConnectionError

\* Response.text of a text/plain body
text(res) == CASE res.body.kind = "plain" -> RenderRobots(res.body.lines)

\* BeautifulSoup(res.text, "html.parser"): the elements in document order
BeautifulSoup(body) == IF body.kind = "html" THEN body.doc ELSE <<>>

\* Variant: a plain dict, its keys compared as sent
HeaderIn_CaseSensitive(key, headers) == \E h \in headers : h.name = key

\* requests' CaseInsensitiveDict: key in headers, headers[key]
HeaderIn(key, headers) ==
    \E h \in headers : lower(Chars[h.name]) = lower(Chars[key])

HeaderGet(headers, key) ==
    (CHOOSE h \in headers : lower(Chars[h.name]) = lower(Chars[key])).value

----------------------------------------------------------------------------
(* Core visibility checks *)

ROBOTS_BLOCKED == "GPTBot is blocked in robots.txt"
ROBOTS_PASS == "GPTBot is not blocked"
ROBOTS_UNKNOWN == "Could not check robots.txt"
NOINDEX_BLOCKED == "'noindex' tag found (may block GPTBot)"
NOINDEX_PASS == "No 'noindex' tag"
NOINDEX_UNKNOWN == "Could not check for 'noindex' tag"
NOFOLLOW_BLOCKED == "'nofollow' tag found (may block GPTBot crawling)"
NOFOLLOW_PASS == "No 'nofollow' tag"
NOFOLLOW_UNKNOWN == "Could not check for 'nofollow' tag"
BOT_WARNING == "Cloudflare or bot protection detected (GPTBot may be blocked)"
BOT_PASS == "No obvious bot protection headers"
BOT_UNKNOWN == "Could not check bot protection headers"

\* Variant: the token is looked for in any case
check_robots_txt_AnyCase(s, base_url, ok) ==
    LET robots_url == urljoin(base_url, RobotsPath)
        res == requests_get(s, robots_url, ok)
    IN  IF Raises(res) THEN ROBOTS_UNKNOWN
        ELSE IF Contains(lower(text(res)), lower(Chars["GPTBot"])) THEN ROBOTS_BLOCKED
        ELSE ROBOTS_PASS

\* Variant: res.raise_for_status() after the GET, so an error status is
\* handled like a failed fetch
check_robots_txt_RaiseForStatus(s, base_url, ok) ==
    LET robots_url == urljoin(base_url, RobotsPath)
        res == requests_get(s, robots_url, ok)
    IN  IF Raises(res) \/ res.status_code >= 400 THEN ROBOTS_UNKNOWN
        ELSE IF Contains(text(res), Chars["GPTBot"]) THEN ROBOTS_BLOCKED
        ELSE ROBOTS_PASS

check_robots_txt(s, base_url, ok) ==
    LET robots_url == urljoin(base_url, RobotsPath)
        res == requests_get(s, robots_url, ok)
    IN  IF Raises(res) THEN ROBOTS_UNKNOWN
        ELSE IF Contains(text(res), Chars["GPTBot"]) THEN ROBOTS_BLOCKED
        ELSE ROBOTS_PASS

\* Variant: the last meta element named robots instead of the first
FindMetaRobots_Last(soup) ==
    LET hits == SelectSeq(soup, LAMBDA e :
                    /\ e.tag = "meta"
                    /\ "name" \in DOMAIN e.attrs
                    /\ e.attrs["name"] = "robots")
    IN  IF hits = <<>> THEN None ELSE hits[Len(hits)]

\* soup.find("meta", attrs={"name": "robots"}): the first such element
FindMetaRobots(soup) ==
    LET hits == SelectSeq(soup, LAMBDA e :
                    /\ e.tag = "meta"
                    /\ "name" \in DOMAIN e.attrs
                    /\ e.attrs["name"] = "robots")
    IN  IF hits = <<>> THEN None ELSE Head(hits)

\* tag.get("content", "")
GetContent(tag) ==
    IF "content" \in DOMAIN tag.attrs THEN tag.attrs["content"] ELSE ""

check_meta_noindex(s, base_url, ok) ==
    LET res == requests_get(s, base_url, ok)
    IN  IF Raises(res) THEN NOINDEX_UNKNOWN
        ELSE LET tag == FindMetaRobots(BeautifulSoup(res.body))
             IN  IF /\ tag # None
                    /\ Contains(lower(Chars[GetContent(tag)]), Chars["noindex"])
                 THEN NOINDEX_BLOCKED
                 ELSE NOINDEX_PASS

\* Variant: the except branch left as copied from check_meta_noindex
check_meta_nofollow_CopiedExcept(s, base_url, ok) ==
    LET res == requests_get(s, base_url, ok)
    IN  IF Raises(res) THEN NOINDEX_UNKNOWN
        ELSE LET tag == FindMetaRobots(BeautifulSoup(res.body))
             IN  IF /\ tag # None
                    /\ Contains(lower(Chars[GetContent(tag)]), Chars["nofollow"])
                 THEN NOFOLLOW_BLOCKED
                 ELSE NOFOLLOW_PASS

check_meta_nofollow(s, base_url, ok) ==
    LET res == requests_get(s, base_url, ok)
    IN  IF Raises(res) THEN NOFOLLOW_UNKNOWN
        ELSE LET tag == FindMetaRobots(BeautifulSoup(res.body))
             IN  IF /\ tag # None
                    /\ Contains(lower(Chars[GetContent(tag)]), Chars["nofollow"])
                 THEN NOFOLLOW_BLOCKED
                 ELSE NOFOLLOW_PASS

check_bot_blocking_headers(s, base_url, ok) ==
    LET res == requests_get(s, base_url, ok)
    IN  IF Raises(res) THEN BOT_UNKNOWN
        ELSE IF \/ HeaderIn("cf-ray", res.headers)
                \/ HeaderIn("x-protection", res.headers)
                \/ /\ HeaderIn("server", res.headers)
                   /\ Contains(lower(Chars[HeaderGet(res.headers, "server")]),
                               Chars["cloudflare"])
        THEN BOT_WARNING
        ELSE BOT_PASS

----------------------------------------------------------------------------
(* Schema detection *)

\* JSON values as json.loads returns them
Str(s) == [k |-> "str", s |-> s]
Num(n) == [k |-> "num", n |-> n]
Null == [k |-> "null"]
List(items) == [k |-> "list", items |-> items]
Obj(members) == [k |-> "obj", members |-> members]

\* The text of a script element: the JSON text of a value, whole or cut short
JsonText(v) == [k |-> "text", json |-> v, truncated |-> FALSE]
Truncated(v) == [k |-> "text", json |-> v, truncated |-> TRUE]

\* json.loads(script.string): script.string is None for a script element
\* without a single text child
json_loads(string) ==
    IF string = None THEN TypeError
    ELSE IF string.truncated THEN ValueError
    ELSE string.json

\* soup.find_all("script", type="application/ld+json")
FindLdJsonScripts(soup) ==
    SelectSeq(soup, LAMBDA e :
        /\ e.tag = "script"
        /\ "type" \in DOMAIN e.attrs
        /\ e.attrs["type"] = "application/ld+json")

RECURSIVE LoadBlocks(_)
\* the first loop of extract_schemas: schema_data
LoadBlocks(scripts) ==
    IF scripts = <<>> THEN <<>>
    ELSE LET json_data == json_loads(Head(scripts).string)
         IN  IF Raises(json_data) THEN LoadBlocks(Tail(scripts))
             ELSE IF json_data.k = "list"
             THEN json_data.items \o LoadBlocks(Tail(scripts))
             ELSE <<json_data>> \o LoadBlocks(Tail(scripts))

\* "@type" in schema is defined for a dict, a list and a str
SupportsIn(schema) == schema.k \in {"obj", "list", "str"}

AtTypeIn(schema) ==
    CASE schema.k = "obj" -> "@type" \in DOMAIN schema.members
      [] schema.k = "list" ->
            \E i \in 1..Len(schema.items) : schema.items[i] = Str("@type")
      [] schema.k = "str" -> Contains(Chars[schema.s], Chars["@type"])

\* what a set can hold
Hashable(v) == v.k \notin {"list", "obj"}

PySet(elems) == [k |-> "set", elems |-> elems]

RECURSIVE CollectTypes(_, _)
\* the second loop of extract_schemas: detected_types, or the TypeError that
\* ends the loop
CollectTypes(schema_data, detected_types) ==
    IF schema_data = <<>> THEN PySet(detected_types)
    ELSE LET schema == Head(schema_data)
         IN  IF ~SupportsIn(schema) THEN TypeError
             ELSE IF ~AtTypeIn(schema)
             THEN CollectTypes(Tail(schema_data), detected_types)
             ELSE IF schema.k # "obj" THEN TypeError
             ELSE LET types == schema.members["@type"]
                  IN  IF types.k = "list"
                      THEN IF \A i \in 1..Len(types.items) : Hashable(types.items[i])
                           THEN CollectTypes(Tail(schema_data),
                                    detected_types \cup
                                    {types.items[i] : i \in 1..Len(types.items)})
                           ELSE TypeError
                      ELSE IF Hashable(types)
                      THEN CollectTypes(Tail(schema_data), detected_types \cup {types})
                      ELSE TypeError

\* Every value the sets of the model can hold, in the order in which an
\* interpreter started with hash seed 1 iterates over them
HashUniverse ==
    <<Str("Organization"), Str("WebSite"), Str("FAQPage"), Str("HowTo"),
      Str("Article"), Str("Product"), Num(7), Null>>

\* The iteration order of a set under a hash seed: it is fixed for the life
\* of an interpreter and differs from one seed to another
HashOrder(seed) ==
    [i \in 1..Len(HashUniverse) |->
        HashUniverse[((i - 1 + (seed - 1)) % Len(HashUniverse)) + 1]]

\* list(detected_types)
ListOfSet(elems, seed) == List(SelectSeq(HashOrder(seed), LAMBDA x : x \in elems))

extract_schemas(body, seed) ==
    LET soup == BeautifulSoup(body)
        schema_data == LoadBlocks(FindLdJsonScripts(soup))
        detected_types == CollectTypes(schema_data, {})
    IN  IF Raises(detected_types) THEN detected_types
        ELSE ListOfSet(detected_types.elems, seed)

----------------------------------------------------------------------------
(* Scanner endpoint *)

expected == <<"Organization", "WebSite", "FAQPage", "HowTo", "Article">>

\* s in schemas, for a str s and the list of extract_schemas
InList(s, found) == \E i \in 1..Len(found.items) : found.items[i] = Str(s)

\* Variant: the expected list as it was before FAQ became FAQPage
MissingFrom_OldList(found) ==
    SelectSeq(<<"Organization", "WebSite", "FAQ", "HowTo", "Article">>,
              LAMBDA s : ~InList(s, found))

\* Variant: missing is a module-level list that every call appends to
MissingFrom_ModuleLevel(found) ==
    (IF observed # <<>> /\ observed[Len(observed)].result.k = "dict"
     THEN observed[Len(observed)].result.dict["missing_schemas"]
     ELSE <<>>)
    \o SelectSeq(expected, LAMBDA s : ~InList(s, found))

\* [s for s in expected if s not in schemas]
MissingFrom(found) == SelectSeq(expected, LAMBDA s : ~InList(s, found))

\* html = "" of the except branch
EmptyText == [kind |-> "plain", lines |-> <<>>]

Fetch(u, ok) == [url |-> u, ok |-> ok]

Seeds == 1..NumSeeds

\* A completed call as its caller and the network saw it
Observation(seed, fetches, outcome) ==
    [seed |-> seed, fetches |-> fetches, result |-> outcome]

\* run_scan is called
Call ==
    /\ pc = "idle"
    /\ scans < MaxScans
    /\ scans' = scans + 1
    /\ observed' = IF observed = <<>> THEN <<>> ELSE <<observed[Len(observed)]>>
    /\ pc' = "get"
    /\ html' = None
    /\ schemas' = None
    /\ missing' = None
    /\ fields' = <<>>
    /\ fetchlog' = <<>>
    /\ result' = None
    /\ UNCHANGED <<hashseed, site, url, fn, ret>>

\* try: html = requests.get(url, timeout=5).text / except Exception: html = ""
GetPage ==
    /\ pc = "get"
    /\ \E ok \in BOOLEAN :
        LET res == requests_get(site, url, ok)
        IN  /\ html' = IF Raises(res) THEN EmptyText ELSE res.body
            /\ fetchlog' = Append(fetchlog, Fetch(url, ok))
    /\ pc' = "extract"
    /\ UNCHANGED <<hashseed, site, url, schemas, missing, fields, result, scans,
                   observed, fn, ret>>

\* schemas = extract_schemas(html), outside any try: its TypeError leaves
\* run_scan
ExtractSchemas ==
    /\ pc = "extract"
    /\ LET r == extract_schemas(html, hashseed)
       IN  IF Raises(r)
           THEN /\ result' = r
                /\ observed' = Append(observed, Observation(hashseed, fetchlog, r))
                /\ pc' = "idle"
                /\ UNCHANGED schemas
           ELSE /\ schemas' = r
                /\ pc' = "missing"
                /\ UNCHANGED <<result, observed>>
    /\ UNCHANGED <<hashseed, site, url, html, missing, fields, fetchlog, scans,
                   fn, ret>>

\* missing = [s for s in expected if s not in schemas]
ComputeMissing ==
    /\ pc = "missing"
    /\ missing' = MissingFrom(schemas)
    /\ pc' = "robots_txt"
    /\ UNCHANGED <<hashseed, site, url, html, schemas, fields, fetchlog, result,
                   scans, observed, fn, ret>>

\* "robots_txt": check_robots_txt(url)
CheckRobots ==
    /\ pc = "robots_txt"
    /\ \E ok \in BOOLEAN :
        /\ fields' = fields @@ ("robots_txt" :> check_robots_txt(site, url, ok))
        /\ fetchlog' = Append(fetchlog, Fetch(urljoin(url, RobotsPath), ok))
    /\ pc' = "meta_noindex"
    /\ UNCHANGED <<hashseed, site, url, html, schemas, missing, result, scans,
                   observed, fn, ret>>

\* "meta_noindex": check_meta_noindex(url)
CheckNoindex ==
    /\ pc = "meta_noindex"
    /\ \E ok \in BOOLEAN :
        /\ fields' = fields @@ ("meta_noindex" :> check_meta_noindex(site, url, ok))
        /\ fetchlog' = Append(fetchlog, Fetch(url, ok))
    /\ pc' = "meta_nofollow"
    /\ UNCHANGED <<hashseed, site, url, html, schemas, missing, result, scans,
                   observed, fn, ret>>

\* "meta_nofollow": check_meta_nofollow(url)
CheckNofollow ==
    /\ pc = "meta_nofollow"
    /\ \E ok \in BOOLEAN :
        /\ fields' = fields @@ ("meta_nofollow" :> check_meta_nofollow(site, url, ok))
        /\ fetchlog' = Append(fetchlog, Fetch(url, ok))
    /\ pc' = "bot_protection"
    /\ UNCHANGED <<hashseed, site, url, html, schemas, missing, result, scans,
                   observed, fn, ret>>

\* "bot_protection": check_bot_blocking_headers(url)
CheckBot ==
    /\ pc = "bot_protection"
    /\ \E ok \in BOOLEAN :
        /\ fields' = fields @@
                ("bot_protection" :> check_bot_blocking_headers(site, url, ok))
        /\ fetchlog' = Append(fetchlog, Fetch(url, ok))
    /\ pc' = "return"
    /\ UNCHANGED <<hashseed, site, url, html, schemas, missing, result, scans,
                   observed, fn, ret>>

\* return {..., "schemas": schemas, "missing_schemas": missing}
Return ==
    /\ pc = "return"
    /\ LET report == [k |-> "dict",
                      dict |-> fields @@ ("schemas" :> schemas.items)
                                      @@ ("missing_schemas" :> missing)]
       IN  /\ result' = report
           /\ observed' = Append(observed, Observation(hashseed, fetchlog, report))
    /\ pc' = "idle"
    /\ UNCHANGED <<hashseed, site, url, html, schemas, missing, fields, fetchlog,
                   scans, fn, ret>>

\* The server process is started again between two requests: the new
\* interpreter draws its own hash seed (hash randomization is on by default)
Restart ==
    /\ pc = "idle"
    /\ \E seed \in Seeds \ {hashseed} : hashseed' = seed
    /\ UNCHANGED <<site, url, pc, html, schemas, missing, fields, fetchlog,
                   result, scans, observed, fn, ret>>

----------------------------------------------------------------------------
(* The inputs: target URLs and sites *)

Targets == {URL("https://example.com", "/"), URL("https://example.com", "/blog/post")}

StatusCodes == {200, 404}

RobotsLines ==
    {RobotsLine("ua", "*"), RobotsLine("ua", "GPTBot"), RobotsLine("ua", "gptbot"),
     RobotsLine("disallow", "/"), RobotsLine("disallow", ""),
     RobotsLine("allow", "/"), RobotsLine("comment", "GPTBot is welcome")}

MetaElements ==
    {Element("meta", [name |-> "robots"], None),
     Element("meta", [content |-> "noindex, nofollow"], None)}
    \cup {Element("meta", [name |-> n, content |-> c], None) :
            n \in {"robots", "Robots", "googlebot"},
            c \in {"", "noindex, nofollow", "NOINDEX", "NoFollow", "index, follow"}}

HeaderSets ==
    LET all == {[name |-> n, value |-> v] :
                    n \in {"CF-RAY", "cf-ray", "X-Protection", "Server", "server",
                           "X-Cache"},
                    v \in {"cloudflare", "Cloudflare", "nginx", "HIT"}}
    IN  {hs \in {{q[i] : i \in 1..Len(q)} : q \in SeqUpTo(all, MaxHeaders)} :
            \A g, h \in hs :
                lower(Chars[g.name]) = lower(Chars[h.name]) => g = h}

LdJson == [type |-> "application/ld+json"]

TypeObj(t) == Obj("@type" :> t)

TypeValues ==
    {Str("Organization"), Str("Article"), Str("Product"), Num(7), Null,
     Obj("name" :> Str("Acme")),
     List(<<>>), List(<<Str("Article")>>),
     List(<<Str("Article"), Str("FAQPage")>>),
     List(<<Str("HowTo"), Str("Product")>>),
     List(<<Str("WebSite"), Num(7)>>),
     List(<<Str("Article"), List(<<>>)>>)}

JsonDocs ==
    {TypeObj(t) : t \in TypeValues}
    \cup {Obj("name" :> Str("Acme")), Num(7), Null, Str("plain text"),
          Str("see @type")}
    \cup {List(<<>>),
          List(<<TypeObj(Str("WebSite"))>>),
          List(<<TypeObj(Str("WebSite")),
                 TypeObj(List(<<Str("Article"), Str("FAQPage")>>))>>),
          List(<<TypeObj(Str("WebSite")), Num(7)>>),
          List(<<List(<<Str("@type")>>)>>),
          List(<<List(<<Str("plain text")>>)>>)}

ScriptElements ==
    {Element("script", LdJson, None),
     Element("script", LdJson, Truncated(TypeObj(Str("HowTo")))),
     Element("script", [type |-> "text/javascript"], JsonText(TypeObj(Str("HowTo"))))}
    \cup {Element("script", LdJson, JsonText(d)) : d \in JsonDocs}

Page(status_code, doc, headers) ==
    [status_code |-> status_code, doc |-> doc, headers |-> headers]

Robots(status_code, lines) == [status_code |-> status_code, lines |-> lines]

Site(page, robots) == [page |-> page, robots |-> robots]

\* The sites each function is tried on
UnitSites(f) ==
    CASE f = "check_robots_txt" ->
            {Site(Page(200, <<>>, {}), Robots(c, l)) :
                c \in StatusCodes, l \in SeqUpTo(RobotsLines, MaxLines)}
      [] f \in {"check_meta_noindex", "check_meta_nofollow"} ->
            {Site(Page(c, d, {}), Robots(200, <<>>)) :
                c \in StatusCodes, d \in SeqUpTo(MetaElements, MaxMetas)}
      [] f = "check_bot_blocking_headers" ->
            {Site(Page(c, <<>>, hs), Robots(200, <<>>)) :
                c \in StatusCodes, hs \in HeaderSets}
      [] f = "extract_schemas" ->
            {Site(Page(200, d, {}), Robots(200, <<>>)) :
                d \in SeqUpTo(ScriptElements, MaxBlocks)}

\* The sites run_scan is called on
ExamplePage ==
    <<Element("meta", [name |-> "robots", content |-> "noindex, nofollow"], None),
      Element("script", LdJson, JsonText(TypeObj(Str("Organization")))),
      Element("script", LdJson,
              JsonText(List(<<TypeObj(Str("WebSite")),
                              TypeObj(List(<<Str("Article"), Str("FAQPage")>>))>>)))>>

ScanPages ==
    {Page(200, <<>>, {}),
     Page(200, ExamplePage, {[name |-> "Server", value |-> "Cloudflare"]}),
     Page(200, ExamplePage \o
               <<Element("script", LdJson,
                         JsonText(TypeObj(List(<<Str("HowTo"), Str("Product")>>))))>>,
          {}),
     Page(404, <<Element("meta", [name |-> "robots", content |-> "index, follow"], None),
                 Element("script", LdJson, Truncated(TypeObj(Str("HowTo")))),
                 Element("script", LdJson, JsonText(TypeObj(Num(7))))>>,
          {[name |-> "CF-RAY", value |-> "HIT"]}),
     Page(200, <<Element("script", LdJson, JsonText(TypeObj(Str("Article")))),
                 Element("script", LdJson, JsonText(Num(7)))>>, {}),
     Page(200, <<Element("script", LdJson,
                         JsonText(TypeObj(Obj("name" :> Str("Acme")))))>>, {})}

ScanRobots ==
    {Robots(404, <<>>),
     Robots(200, <<RobotsLine("ua", "GPTBot"), RobotsLine("disallow", "/")>>),
     Robots(200, <<RobotsLine("ua", "*"), RobotsLine("disallow", "")>>)}

ScanSites ==
    {Site(p, Robots(200, <<RobotsLine("comment", "GPTBot is welcome")>>)) :
        p \in ScanPages}
    \cup {Site(Page(200, ExamplePage, {}), r) : r \in ScanRobots}

----------------------------------------------------------------------------
(* The scanner process *)

Init ==
    /\ hashseed \in Seeds
    /\ site \in ScanSites
    /\ url = URL("https://example.com", "/blog/post")
    /\ pc = "idle"
    /\ html = None
    /\ schemas = None
    /\ missing = None
    /\ fields = <<>>
    /\ fetchlog = <<>>
    /\ result = None
    /\ scans = 0
    /\ observed = <<>>
    /\ fn = "run_scan"
    /\ ret = None

Next ==
    \/ Call
    \/ GetPage
    \/ ExtractSchemas
    \/ ComputeMissing
    \/ CheckRobots
    \/ CheckNoindex
    \/ CheckNofollow
    \/ CheckBot
    \/ Return
    \/ Restart

Spec == Init /\ [][Next]_vars

----------------------------------------------------------------------------
(* Each function applied once *)

Functions ==
    {"check_robots_txt", "check_meta_noindex", "check_meta_nofollow",
     "check_bot_blocking_headers", "extract_schemas"}

InitUnit ==
    /\ fn \in Functions
    /\ site \in UnitSites(fn)
    /\ url \in IF fn = "check_robots_txt" THEN Targets
               ELSE {URL("https://example.com", "/")}
    /\ hashseed \in IF fn = "extract_schemas" THEN Seeds ELSE {1}
    /\ pc = "unit"
    /\ html = None
    /\ schemas = None
    /\ missing = None
    /\ fields = <<>>
    /\ fetchlog = <<>>
    /\ result = None
    /\ scans = 0
    /\ observed = <<>>
    /\ ret = None

Outcome(ok, val) == [k |-> "outcome", ok |-> ok, val |-> val]

UnitRobots ==
    /\ fn = "check_robots_txt"
    /\ ret = None
    /\ \E ok \in BOOLEAN : ret' = Outcome(ok, check_robots_txt(site, url, ok))
    /\ UNCHANGED <<hashseed, site, url, pc, html, schemas, missing, fields,
                   fetchlog, result, scans, observed, fn>>

UnitNoindex ==
    /\ fn = "check_meta_noindex"
    /\ ret = None
    /\ \E ok \in BOOLEAN : ret' = Outcome(ok, check_meta_noindex(site, url, ok))
    /\ UNCHANGED <<hashseed, site, url, pc, html, schemas, missing, fields,
                   fetchlog, result, scans, observed, fn>>

UnitNofollow ==
    /\ fn = "check_meta_nofollow"
    /\ ret = None
    /\ \E ok \in BOOLEAN : ret' = Outcome(ok, check_meta_nofollow(site, url, ok))
    /\ UNCHANGED <<hashseed, site, url, pc, html, schemas, missing, fields,
                   fetchlog, result, scans, observed, fn>>

UnitBot ==
    /\ fn = "check_bot_blocking_headers"
    /\ ret = None
    /\ \E ok \in BOOLEAN :
        ret' = Outcome(ok, check_bot_blocking_headers(site, url, ok))
    /\ UNCHANGED <<hashseed, site, url, pc, html, schemas, missing, fields,
                   fetchlog, result, scans, observed, fn>>

UnitExtract ==
    /\ fn = "extract_schemas"
    /\ ret = None
    /\ ret' = Outcome(TRUE,
                extract_schemas([kind |-> "html", doc |-> site.page.doc], hashseed))
    /\ UNCHANGED <<hashseed, site, url, pc, html, schemas, missing, fields,
                   fetchlog, result, scans, observed, fn>>

NextUnit ==
    \/ UnitRobots
    \/ UnitNoindex
    \/ UnitNofollow
    \/ UnitBot
    \/ UnitExtract

SpecUnit == InitUnit /\ [][NextUnit]_vars

----------------------------------------------------------------------------
(* Properties *)

\* a call of run_scan has ended: it returned or an exception left it
Finished == pc = "idle" /\ scans > 0

Returned == Finished /\ result.k = "dict"

ReportFields ==
    {"robots_txt", "meta_noindex", "meta_nofollow", "bot_protection", "schemas",
     "missing_schemas"}

Range(seq) == {seq[i] : i \in 1..Len(seq)}

NoDuplicates(seq) == \A i, j \in 1..Len(seq) : seq[i] = seq[j] => i = j

\* C1: no exception escapes run_scan, whatever the site answers: every call
\* ends by returning a report with exactly the six fields.
C1_ScanNeverFails ==
    Finished => /\ ~Raises(result)
                /\ result.k = "dict"
                /\ DOMAIN result.dict = ReportFields

\* C2: a check's field is its UNKNOWN message exactly when the check's own
\* fetch failed; a failed page fetch of the scan gives no schemas and the full
\* missing list; a failed fetch never ends the scan: every later check runs
\* and the report has all six fields (so with every fetch failed, too).
C2_FetchFailuresStayLocal ==
    /\ Returned =>
        /\ Len(fetchlog) = 5
        /\ DOMAIN result.dict = ReportFields
        /\ result.dict["robots_txt"] = ROBOTS_UNKNOWN <=> ~fetchlog[2].ok
        /\ result.dict["meta_noindex"] = NOINDEX_UNKNOWN <=> ~fetchlog[3].ok
        /\ result.dict["meta_nofollow"] = NOFOLLOW_UNKNOWN <=> ~fetchlog[4].ok
        /\ result.dict["bot_protection"] = BOT_UNKNOWN <=> ~fetchlog[5].ok
        /\ ~fetchlog[1].ok =>
            /\ result.dict["schemas"] = <<>>
            /\ result.dict["missing_schemas"] =
                  <<"Organization", "WebSite", "FAQPage", "HowTo", "Article">>
    /\ Finished /\ (\E i \in 1..Len(fetchlog) : ~fetchlog[i].ok) => Returned

C2_Witness ==
    /\ Returned
    /\ \A i \in 1..5 : ~fetchlog[i].ok
    /\ result.dict["robots_txt"] = ROBOTS_UNKNOWN
    /\ result.dict["bot_protection"] = BOT_UNKNOWN

\* the literal appears in the value of some line of the file
MentionsToken(lines) ==
    \E i \in 1..Len(lines) : Contains(Chars[lines[i].val], Chars["GPTBot"])

UnitDone(f) == fn = f /\ ret # None

\* C3: check_robots_txt, when the GET of the origin's /robots.txt succeeds,
\* with any status code, says BLOCKED exactly when some line of the body holds
\* the literal GPTBot in that case (a comment, an allowing group), and PASS
\* otherwise; when the GET fails it says UNKNOWN.
C3_RobotsIsSubstringTest ==
    UnitDone("check_robots_txt") =>
        IF ret.ok
        THEN /\ ret.val = ROBOTS_BLOCKED <=> MentionsToken(site.robots.lines)
             /\ ret.val = ROBOTS_PASS <=> ~MentionsToken(site.robots.lines)
        ELSE ret.val = ROBOTS_UNKNOWN

C3_Witness ==
    /\ UnitDone("check_robots_txt")
    /\ ret.ok
    /\ site.robots.status_code = 404
    /\ url.path = "/blog/post"
    /\ site.robots.lines = <<RobotsLine("ua", "*"),
                             RobotsLine("comment", "GPTBot is welcome")>>
    /\ ret.val = ROBOTS_BLOCKED

\* The robots exclusion protocol: the rules that apply to the crawler are
\* those of the groups naming it (in any case), or of the groups for * when
\* no group names it; a Disallow with a path among them disallows it.
DisallowsGPTBot(lines) ==
    LET rules == SelectSeq(lines, LAMBDA l : l.kind # "comment")
        Names(a) == lower(Chars[a]) = Chars["gptbot"]
        named == \E i \in 1..Len(rules) : rules[i].kind = "ua" /\ Names(rules[i].val)
        \* the user-agent lines that head the group of rule i
        Agents(i) ==
            {rules[j].val : j \in {j \in 1..(i - 1) :
                /\ rules[j].kind = "ua"
                /\ \A m \in j..(i - 1) :
                      rules[m].kind = "ua" \/
                      (\A n \in m..(i - 1) : rules[n].kind # "ua")}}
        Applies(i) ==
            IF named THEN \E a \in Agents(i) : Names(a) ELSE "*" \in Agents(i)
    IN  \E i \in 1..Len(rules) :
            /\ rules[i].kind = "disallow"
            /\ rules[i].val # ""
            /\ Applies(i)

\* C4 as stated: with robots.txt reachable and no rule in it that disallows
\* the GPTBot crawler, check_robots_txt says PASS.
C4_PassWithoutBlockingRule ==
    UnitDone("check_robots_txt") /\ ret.ok /\ ~DisallowsGPTBot(site.robots.lines)
        => ret.val = ROBOTS_PASS

\* C4, amended: with robots.txt reachable, no rule in it that disallows the
\* GPTBot crawler and the literal GPTBot nowhere in it, check_robots_txt says
\* PASS.
C4_PassWithoutBlockingRuleOrToken ==
    /\ UnitDone("check_robots_txt")
    /\ ret.ok
    /\ ~DisallowsGPTBot(site.robots.lines)
    /\ ~MentionsToken(site.robots.lines)
    => ret.val = ROBOTS_PASS

C4_Witness ==
    /\ UnitDone("check_robots_txt")
    /\ ret.ok
    /\ site.robots.lines = <<RobotsLine("ua", "gptbot"), RobotsLine("allow", "/")>>
    /\ ret.val = ROBOTS_PASS

\* the element a crawler reads its directives from: the first meta element
\* named exactly robots
IsMetaRobots(e) ==
    e.tag = "meta" /\ "name" \in DOMAIN e.attrs /\ e.attrs["name"] = "robots"

FirstMetaRobotsSays(doc, directive) ==
    \E i \in 1..Len(doc) :
        /\ IsMetaRobots(doc[i])
        /\ \A j \in 1..(i - 1) : ~IsMetaRobots(doc[j])
        /\ "content" \in DOMAIN doc[i].attrs
        /\ Contains(lower(Chars[doc[i].attrs["content"]]), Chars[directive])

\* C5: check_meta_noindex (check_meta_nofollow), when the page GET succeeds,
\* says BLOCKED exactly when the first meta element named exactly robots has
\* a content that holds noindex (nofollow) once lower-cased, and PASS in every
\* other case: never UNKNOWN.
C5_MetaDirectiveOfFirstRobotsMeta ==
    /\ UnitDone("check_meta_noindex") /\ ret.ok =>
        IF FirstMetaRobotsSays(site.page.doc, "noindex")
        THEN ret.val = NOINDEX_BLOCKED
        ELSE ret.val = NOINDEX_PASS
    /\ UnitDone("check_meta_nofollow") /\ ret.ok =>
        IF FirstMetaRobotsSays(site.page.doc, "nofollow")
        THEN ret.val = NOFOLLOW_BLOCKED
        ELSE ret.val = NOFOLLOW_PASS

C5_Witness ==
    /\ UnitDone("check_meta_nofollow")
    /\ ret.ok
    /\ site.page.doc =
          <<Element("meta", [name |-> "robots", content |-> "index, follow"], None),
            Element("meta", [name |-> "robots", content |-> "noindex, nofollow"], None)>>
    /\ ret.val = NOFOLLOW_PASS

\* a protection fingerprint among the headers, names compared in lower case
Fingerprint(headers) ==
    \E h \in headers :
        \/ lower(Chars[h.name]) = Chars["cf-ray"]
        \/ lower(Chars[h.name]) = Chars["x-protection"]
        \/ /\ lower(Chars[h.name]) = Chars["server"]
           /\ Contains(lower(Chars[h.value]), Chars["cloudflare"])

\* C6: check_bot_blocking_headers says UNKNOWN when the page GET fails,
\* WARNING exactly when it succeeds and the headers hold cf-ray, x-protection
\* or a server naming cloudflare (names and the server value in any case),
\* PASS otherwise; the three messages differ.
C6_BotProtectionThreeOutcomes ==
    /\ BOT_WARNING # BOT_UNKNOWN /\ BOT_WARNING # BOT_PASS /\ BOT_PASS # BOT_UNKNOWN
    /\ UnitDone("check_bot_blocking_headers") =>
        IF ~ret.ok THEN ret.val = BOT_UNKNOWN
        ELSE IF Fingerprint(site.page.headers) THEN ret.val = BOT_WARNING
        ELSE ret.val = BOT_PASS

C6_Witness ==
    /\ UnitDone("check_bot_blocking_headers")
    /\ ret.ok
    /\ site.page.headers = {[name |-> "Server", value |-> "Cloudflare"],
                            [name |-> "X-Cache", value |-> "HIT"]}
    /\ ret.val = BOT_WARNING

\* The @type names a page declares: of every ld+json block that is well-formed
\* JSON, the records (the elements of an array, or the value itself); of every
\* record with an @type, the strings of a sequence or the single string.
DeclaredTypes(doc) ==
    LET blocks == {doc[i].string : i \in {i \in 1..Len(doc) :
                        /\ doc[i].tag = "script"
                        /\ doc[i].attrs = LdJson
                        /\ doc[i].string # None
                        /\ ~doc[i].string.truncated}}
        records == UNION {IF b.json.k = "list" THEN Range(b.json.items) ELSE {b.json} :
                            b \in blocks}
        typed == {r \in records : r.k = "obj" /\ "@type" \in DOMAIN r.members}
        Names(t) == IF t.k = "list" THEN {x \in Range(t.items) : x.k = "str"}
                    ELSE IF t.k = "str" THEN {t}
                    ELSE {}
    IN  UNION {Names(r.members["@type"]) : r \in typed}

\* C7: extract_schemas returns, without duplicates, exactly the @type names the
\* records of the well-formed JSON-LD blocks of the page declare; a malformed
\* block adds nothing and changes nothing of the others.
C7_ExtractReturnsDeclaredTypes ==
    UnitDone("extract_schemas") =>
        /\ ~Raises(ret.val)
        /\ NoDuplicates(ret.val.items)
        /\ Range(ret.val.items) = DeclaredTypes(site.page.doc)

\* C8: in every report missing_schemas is the expected list (Organization,
\* WebSite, FAQPage, HowTo, Article) without the names found in schemas, in the
\* order of that list: each expected name is in exactly one of the two, and
\* nothing else is in missing_schemas.
C8_MissingIsExpectedMinusFound ==
    Returned =>
        LET names == <<"Organization", "WebSite", "FAQPage", "HowTo", "Article">>
            found == result.dict["schemas"]
            gone == result.dict["missing_schemas"]
            absent == {i \in 1..Len(names) : Str(names[i]) \notin Range(found)}
        IN  /\ Len(gone) = Cardinality(absent)
            /\ \A i \in 1..Len(gone) :
                  \E j \in absent :
                      /\ gone[i] = names[j]
                      /\ Cardinality({m \in absent : m < j}) = i - 1
            /\ \A i \in 1..Len(names) :
                  (Str(names[i]) \in Range(found)) # (names[i] \in Range(gone))

C8_Witness ==
    /\ Returned
    /\ Range(result.dict["schemas"]) =
          {Str("Organization"), Str("WebSite"), Str("Article"), Str("FAQPage")}
    /\ result.dict["missing_schemas"] = <<"HowTo">>

\* two completed calls that met the same answers and failures, fetch by fetch
SameScanTwice ==
    /\ Len(observed) = 2
    /\ observed[1].fetches = observed[2].fetches

\* C9 as stated: the same scan run twice against the unchanged site gives
\* identical outcomes, the schemas list included.
C9_SameScanSameReport ==
    SameScanTwice => observed[1].result = observed[2].result

\* C9, amended: the same scan run twice against the unchanged site gives the
\* same outcome but for the order of the schemas list: the same exception, or
\* reports equal in the four checks and in missing_schemas whose schemas hold
\* the same names, each once; and in one interpreter process the two reports
\* are identical.
C9_SameScanSameReportUpToOrder ==
    SameScanTwice =>
        LET a == observed[1].result
            b == observed[2].result
        IN  /\ a.k = b.k
            /\ Raises(a) => a = b
            /\ a.k = "dict" =>
                /\ DOMAIN a.dict = DOMAIN b.dict
                /\ \A f \in ReportFields \ {"schemas"} : a.dict[f] = b.dict[f]
                /\ Range(a.dict["schemas"]) = Range(b.dict["schemas"])
                /\ Len(a.dict["schemas"]) = Len(b.dict["schemas"])
                /\ NoDuplicates(b.dict["schemas"])
            /\ observed[1].seed = observed[2].seed => a = b

C9_Witness ==
    /\ SameScanTwice
    /\ observed[1].seed # observed[2].seed
    /\ observed[1].result.k = "dict"
    /\ observed[1].result.dict["schemas"] # observed[2].result.dict["schemas"]
    /\ observed[1].fetches[1].ok
    /\ ~observed[1].fetches[2].ok

\* C10: run_scan issues its GETs one after another, one attempt each, always
\* the same five: the page, the origin's /robots.txt, then the page three
\* times; a later one is issued whatever became of the earlier ones, and the
\* call ends with its report after the fifth.
C10_AlwaysFiveFetchesInOrder ==
    LET plan == <<url, urljoin(url, RobotsPath), url, url, url>>
    IN  /\ Len(fetchlog) <= 5
        /\ \A i \in 1..Len(fetchlog) : fetchlog[i].url = plan[i]
        /\ Finished => Len(fetchlog) = 5 /\ result.k = "dict"

====
